---- MODULE Spec2Model ----
(***************************************************************************)
(* E-Commerce ETL: the three commands of the repository                    *)
(*   Load/db_loader.py      CSV files      -> relational store             *)
(*   Extract/db_to_s3.py    relational     -> staged objects               *)
(*   Transform/transform.py parquet files  -> star schema -> warehouse     *)
(* as one state machine.  A data frame is a sequence of rows, a row is a   *)
(* record of the columns the transformations read or write.                *)
(***************************************************************************)
EXTENDS Integers, Sequences, FiniteSets, TLC

(* ------------------------------ bounds --------------------------------- *)
\* Longest raw table drawn as an input.
MaxRows == 2
\* Command invocations in one behaviour.
MaxRuns == 2
\* Failures of the external stores (connection refused, write rejected).
MaxFaults == 1

(* ------------------------------ values --------------------------------- *)
\* A missing number (numpy NaN / pandas NaT) in a numeric or date column.
NaN == -1
\* A missing value in a text or identifier column.
NULL == "NaN"
\* What UUID(...) stands for when it raises ValueError.
BadUUID == "ValueError"

\* Canonical (lower-case) identifiers of the model.
CanonicalIds == {"c1", "c2", "u1", "u2", "o1", "o2", "p1", "p2", "p9",
                 "s1", "s2", "r1", "r2"}

\* uuid.UUID(s): hex digits are case-insensitive, so "U1" and "u1" are one
\* identifier; anything that is not a well-formed identifier raises.
UUID(s) ==
    CASE s \in CanonicalIds -> s
      [] s = "U1" -> "u1"
      [] s = "C1" -> "c1"
      [] OTHER -> BadUUID

(* --------------------------- sequence helpers -------------------------- *)
Range(s) == {s[i] : i \in 1..Len(s)}

Column(df, c) == [i \in 1..Len(df) |-> df[i][c]]

RECURSIVE Concat(_)
Concat(ss) == IF ss = <<>> THEN <<>> ELSE Head(ss) \o Concat(Tail(ss))

\* Series.unique(): the distinct values in order of first appearance.
Unique(s) ==
    LET F[i \in 0..Len(s)] ==
            IF i = 0 THEN <<>>
            ELSE IF \E j \in 1..(i-1) : s[j] = s[i] THEN F[i-1]
                 ELSE Append(F[i-1], s[i])
    IN  F[Len(s)]

IndexOf(s, v) == CHOOSE i \in 1..Len(s) : s[i] = v

\* DataFrame.drop_duplicates(): whole-row duplicates, the first one kept.
DropDuplicates(df) == Unique(df)

\* DataFrame.drop_duplicates(key, keep="first").
RowsKeepFirst(df, key) ==
    LET F[i \in 0..Len(df)] ==
            IF i = 0 THEN <<>>
            ELSE IF \E j \in 1..(i-1) : df[j][key] = df[i][key] THEN F[i-1]
                 ELSE Append(F[i-1], df[i])
    IN  F[Len(df)]

\* DataFrame.drop_duplicates(key, keep="last"): a row stays when no later row
\* has its key; the rows kept stay in order.
RowsKeepLast(df, key) ==
    LET F[i \in 0..Len(df)] ==
            IF i = 0 THEN <<>>
            ELSE IF \E j \in (i+1)..Len(df) : df[j][key] = df[i][key] THEN F[i-1]
                 ELSE Append(F[i-1], df[i])
    IN  F[Len(df)]

\* Ascending order of a column with missing values last (na_position="last").
KeyLeq(a, b) == b = NaN \/ (a # NaN /\ a <= b)

\* DataFrame.sort_values(key): the default sort is not stable, so rows with
\* equal keys may come out in any order; every sorted arrangement is an outcome.
SortValues(df, key) ==
    LET n == Len(df)
        perms == {p \in [1..n -> 1..n] : \A i, j \in 1..n : i # j => p[i] # p[j]}
    IN  {[i \in 1..n |-> df[p[i]]] : p \in
            {q \in perms : \A i \in 1..n, j \in 1..n :
                              i < j => KeyLeq(df[q[i]][key], df[q[j]][key])}}

(* ------------------------------ rounding ------------------------------- *)
\* Rounding with a tie going up.
RoundHalfUp(q) == (q + 2) \div 4

\* Amounts are float64 values that are whole multiples of 0.25, written as the
\* number of quarters: such values and their sums are exact in binary floating
\* point.  Series.round() is numpy's rint: to the nearest integer, a tie going
\* to the even neighbour.
Round(q) ==
    LET fl == q \div 4
        rem == q % 4
    IN  IF rem < 2 THEN fl
        ELSE IF rem > 2 THEN fl + 1
        ELSE IF fl % 2 = 0 THEN fl ELSE fl + 1

(* ------------------------------ calendar ------------------------------- *)
IsLeap(y) == (y % 4 = 0 /\ y % 100 # 0) \/ y % 400 = 0

DaysInMonth(y, m) ==
    IF m = 2 THEN (IF IsLeap(y) THEN 29 ELSE 28)
    ELSE IF m \in {4, 6, 9, 11} THEN 30 ELSE 31

RECURSIVE DaysBeforeMonth(_, _)
DaysBeforeMonth(y, m) ==
    IF m = 1 THEN 0 ELSE DaysBeforeMonth(y, m - 1) + DaysInMonth(y, m - 1)

DaysBeforeYear(y) ==
    (y - 1) * 365 + (y - 1) \div 4 - (y - 1) \div 100 + (y - 1) \div 400

\* A timestamp at midnight as its day number (0001-01-01 is day 1).
Ordinal(ymd) == DaysBeforeYear(ymd[1]) + DaysBeforeMonth(ymd[1], ymd[2]) + ymd[3]

\* The year day number n lies in.
YearOf(n) ==
    CHOOSE y \in ((n - 1) \div 366 + 1)..((n - 1) \div 365 + 1) :
        DaysBeforeYear(y) < n /\ n <= DaysBeforeYear(y + 1)

\* The day of the year, from 1.
DayOfYear(n) == n - DaysBeforeYear(YearOf(n))

\* dt.weekday: Monday is 0.
Weekday(n) == (n + 6) % 7

\* strftime("%W").astype(int): the week of the year with Monday as the first
\* day of a week; the days before the year's first Monday are in week 0.
StrftimeW(n) == (DayOfYear(n) - 1 + 7 - Weekday(n)) \div 7

StartDate == <<2016, 1, 1>>
EndDate == <<2018, 12, 31>>

\* A range that leaves its last day out.
DateRangeOpen(start, end) ==
    [i \in 1..(Ordinal(end) - Ordinal(start)) |-> Ordinal(start) + i - 1]

\* pd.date_range(start, end): one timestamp per day, both ends included.
DateRange(start, end) ==
    [i \in 1..(Ordinal(end) - Ordinal(start) + 1) |-> Ordinal(start) + i - 1]

(* ------------------- Transform/transform.py: the tables ---------------- *)
\* The eight parquet files main() reads, in the order of its check.
RequiredTables == <<"customers", "order_items", "order_payments", "order_reviews",
                    "orders", "product_categories", "products", "sellers">>

\* The six warehouse tables, in the order main() loads them.
LoadOrder == <<"FACT_ORDERS", "FACT_PAYMENTS", "DIM_CUSTOMERS", "DIM_SELLERS",
               "DIM_PRODUCTS", "DIM_DATES">>

\* The table_creations list, in order.
CreateOrder == <<"FACT_ORDERS", "FACT_PAYMENTS", "DIM_CUSTOMERS", "DIM_SELLERS",
                 "DIM_PRODUCTS", "DIM_DATES">>

WarehouseTables == Range(LoadOrder)

\* The columns main() parses with .apply(UUID), as <<raw table, column>>.
IdColumns ==
    {<<"customers", "customer_id">>, <<"customers", "customer_unique_id">>,
     <<"order_items", "order_id">>, <<"order_items", "product_id">>,
     <<"order_items", "seller_id">>, <<"order_payments", "order_id">>,
     <<"order_reviews", "order_id">>, <<"order_reviews", "review_id">>,
     <<"orders", "order_id">>, <<"orders", "customer_id">>,
     <<"products", "product_id">>, <<"sellers", "seller_id">>}

\* df[c] = df[c].apply(UUID)
ApplyUUID(df, c) == [i \in 1..Len(df) |-> [df[i] EXCEPT ![c] = UUID(@)]]

\* No identifier ever fails to parse.
NeverBadUUID(df, c) == FALSE

\* Some value of column c makes UUID(...) raise.
HasBadUUID(df, c) == \E i \in 1..Len(df) : UUID(df[i][c]) = BadUUID

\* {id: (prefix, idx + 1) for idx, id in enumerate(column.unique())}: the
\* synthetic name "Customer_3" is the pair <<"Customer", 3>>.
SyntheticName(prefix, ids, id) == <<prefix, IndexOf(Unique(ids), id)>>

\* Lines 77-80: customers with parsed identifiers and customer_name.
CustomersNamed(customers) ==
    LET parsed == ApplyUUID(ApplyUUID(customers, "customer_id"), "customer_unique_id")
        uids == Column(parsed, "customer_unique_id")
    IN  [i \in 1..Len(parsed) |->
            [customer_id |-> parsed[i].customer_id,
             customer_unique_id |-> parsed[i].customer_unique_id,
             customer_zip_code_prefix |-> parsed[i].customer_zip_code_prefix,
             customer_name |-> SyntheticName("Customer", uids,
                                             parsed[i].customer_unique_id)]]

\* Lines 83-88: order items with total_price and parsed identifiers.
OrderItems(order_items) ==
    LET parsed == ApplyUUID(ApplyUUID(ApplyUUID(order_items, "order_id"),
                                      "product_id"), "seller_id")
    IN  [i \in 1..Len(parsed) |->
            [order_id |-> parsed[i].order_id,
             product_id |-> parsed[i].product_id,
             seller_id |-> parsed[i].seller_id,
             price |-> parsed[i].price,
             freight_value |-> parsed[i].freight_value,
             total_price |-> Round(parsed[i].freight_value + parsed[i].price)]]

\* Line 91.
OrderPayments(order_payments) == ApplyUUID(order_payments, "order_id")

\* Lines 96-97: reviews with parsed identifiers, before the sort.
ReviewsParsed(order_reviews) ==
    ApplyUUID(ApplyUUID(order_reviews, "order_id"), "review_id")

\* The collapse keeping the first review of each order.
CollapseReviewsFirst(sorted) == RowsKeepFirst(sorted, "order_id")

\* Line 98: of the sorted reviews, the last one of each order.
CollapseReviews(sorted) == RowsKeepLast(sorted, "order_id")

\* Line 105: set_index(code)[label].to_dict(); of two rows with one code the
\* later one stays.
ToDict(categories) ==
    [k \in Range(Column(categories, "product_category_name")) |->
        LET last == CHOOSE i \in 1..Len(categories) :
                        /\ categories[i].product_category_name = k
                        /\ \A j \in (i+1)..Len(categories) :
                               categories[j].product_category_name # k
        IN  categories[last].product_category_name_english]

\* Lines 105-106: product_category_map["unknown"] = "unknown".
CategoryMap(categories) ==
    LET d == ToDict(categories)
    IN  [k \in (DOMAIN d) \cup {"unknown"} |-> IF k = "unknown" THEN "unknown" ELSE d[k]]

\* Series.map(dict): a value that is no key becomes missing.
MapValue(map, v) == IF v \in DOMAIN map THEN map[v] ELSE NULL

\* No fallback label.
NoFillNa(v) == v

\* .fillna("unknown")
FillNa(v) == IF v = NULL THEN "unknown" ELSE v

\* Lines 107-117: products with the category label, parsed product_id and
\* product_name.
Products(products, categories) ==
    LET parsed == ApplyUUID(products, "product_id")
        pids == Column(parsed, "product_id")
    IN  [i \in 1..Len(parsed) |->
            [product_id |-> parsed[i].product_id,
             product_category_name |->
                 FillNa(MapValue(CategoryMap(categories),
                                 parsed[i].product_category_name)),
             product_name |-> SyntheticName("Product", pids, parsed[i].product_id)]]

\* Lines 120-122.
Sellers(sellers) ==
    LET parsed == ApplyUUID(sellers, "seller_id")
        sids == Column(parsed, "seller_id")
    IN  [i \in 1..Len(parsed) |->
            [seller_id |-> parsed[i].seller_id,
             seller_name |-> SyntheticName("Seller", sids, parsed[i].seller_id)]]

\* Line 125: customers_df.set_index("customer_id")["customer_unique_id"], used
\* as the argument of Series.map, which needs a unique index.
CustomerMapIsUnique(named) ==
    \A i, j \in 1..Len(named) : i # j => named[i].customer_id # named[j].customer_id

\* The mapping that leaves the order-scoped identifier in place.
CustomerMapConflated(named) ==
    [k \in Range(Column(named, "customer_id")) |-> k]

CustomerMap(named) ==
    [k \in Range(Column(named, "customer_id")) |->
        named[CHOOSE i \in 1..Len(named) : named[i].customer_id = k].customer_unique_id]

\* Lines 101-102, 126: orders with parsed identifiers and customer_id replaced
\* by the account-scoped identifier (missing when the mapping has no such key).
Orders(orders, named) ==
    LET parsed == ApplyUUID(ApplyUUID(orders, "order_id"), "customer_id")
    IN  [i \in 1..Len(parsed) |->
            [order_id |-> parsed[i].order_id,
             customer_id |-> MapValue(CustomerMap(named), parsed[i].customer_id)]]

\* Lines 127-129: drop customer_id, drop_duplicates, rename
\* customer_unique_id to customer_id.
DimCustomers(named) ==
    DropDuplicates(
        [i \in 1..Len(named) |->
            [customer_id |-> named[i].customer_unique_id,
             customer_zip_code_prefix |-> named[i].customer_zip_code_prefix,
             customer_name |-> named[i].customer_name]])

\* order_items.merge(orders, on="order_id", how="left"): every left row, once
\* per matching right row, or once with the right columns missing.
MergeOrders(items, orders) ==
    Concat([i \in 1..Len(items) |->
        LET m == SelectSeq(orders, LAMBDA o : o.order_id = items[i].order_id)
        IN  IF m = <<>>
            THEN << [order_id |-> items[i].order_id,
                     product_id |-> items[i].product_id,
                     seller_id |-> items[i].seller_id,
                     price |-> items[i].price,
                     freight_value |-> items[i].freight_value,
                     total_price |-> items[i].total_price,
                     customer_id |-> NULL] >>
            ELSE [k \in 1..Len(m) |->
                    [order_id |-> items[i].order_id,
                     product_id |-> items[i].product_id,
                     seller_id |-> items[i].seller_id,
                     price |-> items[i].price,
                     freight_value |-> items[i].freight_value,
                     total_price |-> items[i].total_price,
                     customer_id |-> m[k].customer_id]]])

\* .merge(order_reviews, on="order_id", how="left"), then lines 134-135: of
\* the review columns only review_score stays, renamed order_rating.
MergeReviews(rows, reviews) ==
    Concat([i \in 1..Len(rows) |->
        LET m == SelectSeq(reviews, LAMBDA r : r.order_id = rows[i].order_id)
        IN  IF m = <<>>
            THEN << [order_id |-> rows[i].order_id,
                     product_id |-> rows[i].product_id,
                     seller_id |-> rows[i].seller_id,
                     price |-> rows[i].price,
                     freight_value |-> rows[i].freight_value,
                     total_price |-> rows[i].total_price,
                     customer_id |-> rows[i].customer_id,
                     order_rating |-> NaN] >>
            ELSE [k \in 1..Len(m) |->
                    [order_id |-> rows[i].order_id,
                     product_id |-> rows[i].product_id,
                     seller_id |-> rows[i].seller_id,
                     price |-> rows[i].price,
                     freight_value |-> rows[i].freight_value,
                     total_price |-> rows[i].total_price,
                     customer_id |-> rows[i].customer_id,
                     order_rating |-> m[k].review_score]]])

\* Lines 132-135.
FactOrders(items, orders, reviews) == MergeReviews(MergeOrders(items, orders), reviews)

\* Lines 145-152: the date dimension; a row is its date (a day number), the
\* other columns are functions of it.
DimDates == [i \in 1..Len(DateRange(StartDate, EndDate)) |->
                [date |-> DateRange(StartDate, EndDate)[i],
                 week_by_year |-> StrftimeW(DateRange(StartDate, EndDate)[i])]]

\* An .apply(UUID) of lines 77-120 raises ValueError, or the .map of line 126
\* raises InvalidIndexError.
TransformRaises(tables) ==
    \/ HasBadUUID(tables.customers, "customer_id")
    \/ HasBadUUID(tables.customers, "customer_unique_id")
    \/ HasBadUUID(tables.order_items, "order_id")
    \/ HasBadUUID(tables.order_items, "product_id")
    \/ HasBadUUID(tables.order_items, "seller_id")
    \/ HasBadUUID(tables.order_payments, "order_id")
    \/ HasBadUUID(tables.order_reviews, "order_id")
    \/ HasBadUUID(tables.order_reviews, "review_id")
    \/ HasBadUUID(tables.orders, "order_id")
    \/ HasBadUUID(tables.orders, "customer_id")
    \/ HasBadUUID(tables.products, "product_id")
    \/ HasBadUUID(tables.sellers, "seller_id")
    \/ ~CustomerMapIsUnique(CustomersNamed(tables.customers))

\* Lines 75-152: the six tables, given the arrangement the sort of line 98 gave.
Transformed(tables, sortedReviews) ==
    LET named == CustomersNamed(tables.customers)
    IN  [FACT_ORDERS |-> FactOrders(OrderItems(tables.order_items),
                                    Orders(tables.orders, named),
                                    CollapseReviews(sortedReviews)),
         FACT_PAYMENTS |-> OrderPayments(tables.order_payments),
         DIM_CUSTOMERS |-> DimCustomers(named),
         DIM_SELLERS |-> Sellers(tables.sellers),
         DIM_PRODUCTS |-> Products(tables.products, tables.product_categories),
         DIM_DATES |-> DimDates]

NoFrames == [t \in WarehouseTables |-> <<>>]

(* --------------------------- configuration ----------------------------- *)
\* Load/snowflake_loader.py, lines 14-19.
SnowflakeVars == {"SNOWFLAKE_USER", "SNOWFLAKE_PASSWORD", "SNOWFLAKE_ACCOUNT",
                  "SNOWFLAKE_WAREHOUSE", "SNOWFLAKE_DATABASE", "SNOWFLAKE_SCHEMA"}

\* Load/db_loader.py, line 27.
CREDENTIALS == {"POSTGRES_USER", "POSTGRES_PASSWORD", "POSTGRES_PORT", "POSTGRES_HOST"}

\* Every variable the three commands need (POSTGRES_DB has a default).
AllVars == SnowflakeVars \cup CREDENTIALS \cup {"BUCKET_NAME"}

\* Extract/db_to_s3.py, lines 54-64.
table_names == <<"customers", "geolocations", "product_categories", "products",
                 "orders", "order_items", "order_reviews", "sellers",
                 "order_payments">>

\* Load/db_loader.py, lines 79-199: the tables main() loads, in order.
CsvTables == <<"customers", "geolocations", "order_items", "order_payments",
               "order_reviews", "orders", "sellers", "products",
               "product_categories">>

VARIABLES
    env,          \* the configuration variables that are set (non-empty)
    raw,          \* Dataset/Data: per raw table, whether its parquet file can
                  \* be read, and its rows
    existing,     \* the warehouse: the tables that exist
    warehouse,    \* the warehouse: per table, its rows
    pg,           \* the relational store: the tables it holds
    s3,           \* the staging bucket: the object keys it holds
    command,      \* the command that is running or has just ended
    pc,           \* its position
    idx,          \* its loop index
    dfs,          \* transform: the six tables main() built
    created,      \* transform: the tables whose create statement was issued
    loadResults,  \* transform: what load_df_to_snowflake returned, per call
    attempted,    \* extract / relational: the tables tried so far
    ioLog,        \* the I/O the command performed, in order
    outcome,      \* how the command ended
    afterFirst,   \* the warehouse as the first fully loaded run left it
    runsLeft,     \* invocations still allowed
    faultsLeft    \* store failures still allowed

vars == <<env, raw, existing, warehouse, pg, s3, command, pc, idx, dfs, created,
          loadResults, attempted, ioLog, outcome, afterFirst, runsLeft, faultsLeft>>

stores == <<existing, warehouse, pg, s3, afterFirst>>
inputs == <<env, raw>>

NoSnapshot == [taken |-> FALSE, tables |-> NoFrames]

\* The state of a process that has just started.
Fresh(cmd, at) ==
    /\ command' = cmd
    /\ pc' = at
    /\ idx' = 1
    /\ dfs' = NoFrames
    /\ created' = <<>>
    /\ loadResults' = <<>>
    /\ attempted' = <<>>
    /\ ioLog' = <<>>
    /\ outcome' = "running"

(* ------------------ Transform/transform.py: main() --------------------- *)
\* Load/snowflake_loader.py, check_env_vars.
check_env_vars == SnowflakeVars \subseteq env

\* python Transform/transform.py: the imports read the configuration.
StartTransform ==
    /\ pc = "idle"
    /\ runsLeft > 0
    /\ runsLeft' = runsLeft - 1
    /\ Fresh("transform", "t_extract")
    /\ UNCHANGED <<inputs, stores, faultsLeft>>

\* Lines 45-53: extract_local of the eight files; a file that cannot be read
\* gives None.
ExtractLocal ==
    /\ pc = "t_extract"
    /\ ioLog' = ioLog \o
           SelectSeq([i \in 1..Len(RequiredTables) |->
                         IF raw[RequiredTables[i]].exists
                         THEN "read_file" ELSE "read_failed"],
                     LAMBDA e : e = "read_file")
    /\ pc' = "t_check"
    /\ UNCHANGED <<inputs, stores, command, idx, dfs, created, loadResults,
                   attempted, outcome, runsLeft, faultsLeft>>

\* The check without df.empty.
MissingOnly(file) == ~file.exists

\* Line 67: df is None or df.empty.
MissingOrEmpty(file) == ~file.exists \/ file.rows = <<>>

\* Lines 66-69: the run returns at the first missing or empty data frame.
CheckDataframes ==
    /\ pc = "t_check"
    /\ IF \E i \in 1..Len(RequiredTables) : MissingOrEmpty(raw[RequiredTables[i]])
       THEN /\ pc' = "exited"
            /\ outcome' = "returned"
       ELSE /\ pc' = "t_transform"
            /\ outcome' = outcome
    /\ UNCHANGED <<inputs, stores, command, idx, dfs, created, loadResults,
                   attempted, ioLog, runsLeft, faultsLeft>>

RawRows == [t \in Range(RequiredTables) |-> raw[t].rows]

\* Lines 75-152: the transformations; an exception leaves main().
Transform ==
    /\ pc = "t_transform"
    /\ IF TransformRaises(RawRows)
       THEN /\ pc' = "exited"
            /\ outcome' = "raised"
            /\ dfs' = dfs
       ELSE /\ pc' = "t_create"
            /\ outcome' = outcome
            /\ \E sorted \in SortValues(ReviewsParsed(RawRows.order_reviews),
                                        "review_creation_date") :
                   dfs' = Transformed(RawRows, sorted)
    /\ UNCHANGED <<inputs, stores, command, idx, created, loadResults,
                   attempted, ioLog, runsLeft, faultsLeft>>

\* Transform/transform.py, lines 30-38: the function main() calls (this
\* definition replaces the one imported on line 10): it prints the statement
\* and returns True; nothing is sent to the warehouse.
create_tables_in_snowflake(query) == TRUE

\* Lines 251-254: one pass of the loop over table_creations.
CreateTable ==
    /\ pc = "t_create"
    /\ IF create_tables_in_snowflake(CreateOrder[idx])
       THEN /\ created' = Append(created, CreateOrder[idx])
            /\ outcome' = outcome
            /\ IF idx = Len(CreateOrder)
               THEN pc' = "t_load" /\ idx' = 1
               ELSE pc' = pc /\ idx' = idx + 1
       ELSE /\ created' = created
            /\ outcome' = "raised"
            /\ pc' = "exited"
            /\ idx' = idx
    /\ UNCHANGED <<inputs, stores, command, dfs, loadResults, attempted, ioLog,
                   runsLeft, faultsLeft>>

\* Load/snowflake_loader.py, lines 98-100: identifier columns become text; a
\* missing identifier becomes the text "nan".
AsStr(v) == IF v = NULL THEN "nan" ELSE v

IdColumnsToStr(table, df) ==
    IF table = "FACT_ORDERS"
    THEN [i \in 1..Len(df) |-> [df[i] EXCEPT !.customer_id = AsStr(@)]]
    ELSE df

\* snowflake.connector.connect and write_pandas(df, table_name, conn): what the
\* warehouse may answer.
LoadOutcomes == {"written", "connect_error", "write_error"}

\* write_pandas without overwrite=True copies the rows into the table, after
\* the rows it holds.
WritePandas(extent, df) == extent \o df

\* write_pandas without auto_create_table=True needs the table to exist: the
\* copy into a table that does not exist raises ProgrammingError.
CanWrite(table) == table \in existing

\* Lines 258-264 of main() with Load/snowflake_loader.py, lines 75-128: one
\* call of load_df_to_snowflake; main() drops what it returns.
LoadTable ==
    /\ pc = "t_load"
    /\ LET table == LoadOrder[idx]
           df == IdColumnsToStr(table, dfs[table])
           next == IF idx = Len(LoadOrder) THEN "t_finish" ELSE "t_load"
       IN  /\ pc' = next
           /\ idx' = IF idx = Len(LoadOrder) THEN idx ELSE idx + 1
           /\ IF ~check_env_vars \/ dfs[table] = <<>>
              THEN /\ loadResults' = Append(loadResults, FALSE)
                   /\ UNCHANGED <<dfs, warehouse, ioLog, faultsLeft>>
              ELSE \E o \in LoadOutcomes :
                   /\ o = "written" => CanWrite(table)
                   /\ o = "connect_error" => faultsLeft > 0
                   /\ o = "write_error" => ~CanWrite(table) \/ faultsLeft > 0
                   /\ faultsLeft' = IF o = "written" \/ (o = "write_error" /\ ~CanWrite(table))
                                    THEN faultsLeft ELSE faultsLeft - 1
                   /\ dfs' = [dfs EXCEPT ![table] = df]
                   /\ loadResults' = Append(loadResults, o = "written")
                   /\ warehouse' = IF o = "written"
                                   THEN [warehouse EXCEPT ![table] = WritePandas(@, df)]
                                   ELSE warehouse
                   /\ ioLog' = ioLog \o
                          (CASE o = "written" -> <<"connect", "write_rows">>
                             [] o = "connect_error" -> <<"connect_failed">>
                             [] OTHER -> <<"connect", "write_failed">>)
    /\ UNCHANGED <<inputs, existing, pg, s3, afterFirst, command, created,
                   attempted, outcome, runsLeft>>

AllLoaded == Len(loadResults) = Len(LoadOrder) /\ \A i \in 1..Len(loadResults) : loadResults[i]

\* Line 266: the success message, then main() returns.
FinishTransform ==
    /\ pc = "t_finish"
    /\ pc' = "exited"
    /\ outcome' = "success"
    /\ afterFirst' = IF AllLoaded /\ ~afterFirst.taken
                     THEN [taken |-> TRUE, tables |-> warehouse]
                     ELSE afterFirst
    /\ UNCHANGED <<inputs, existing, warehouse, pg, s3, command, idx, dfs,
                   created, loadResults, attempted, ioLog, runsLeft, faultsLeft>>

\* The process is gone; the stores and the files stay.
ProcessExit ==
    /\ pc = "exited"
    /\ Fresh("none", "idle")
    /\ UNCHANGED <<inputs, stores, runsLeft, faultsLeft>>

NextTransform ==
    \/ StartTransform
    \/ ExtractLocal
    \/ CheckDataframes
    \/ Transform
    \/ CreateTable
    \/ LoadTable
    \/ FinishTransform
    \/ ProcessExit

(* -------------------- Extract/db_to_s3.py: main() ---------------------- *)
\* Lines 27-32: create_engine(DATABASE_URL) parses the URL; an unset
\* POSTGRES_PORT puts the text "None" where the port number belongs.
DatabaseUrlParses == "POSTGRES_PORT" \in env

\* python Extract/db_to_s3.py: the module's top level, then main().
StartExtract ==
    /\ pc = "idle"
    /\ runsLeft > 0
    /\ runsLeft' = runsLeft - 1
    /\ Fresh("extract", IF DatabaseUrlParses THEN "e_table" ELSE "e_abort")
    /\ UNCHANGED <<inputs, stores, faultsLeft>>

\* create_engine raised ValueError: the import fails, main() is never called.
AbortExtract ==
    /\ pc = "e_abort"
    /\ pc' = "exited"
    /\ outcome' = "raised"
    /\ UNCHANGED <<inputs, stores, command, idx, dfs, created, loadResults,
                   attempted, ioLog, runsLeft, faultsLeft>>

\* What the relational store and the bucket may answer to one table.
ExtractOutcomes == {"staged", "connect_error", "upload_error"}

\* A loop that a table that was not staged ends.
NextPositionStopping(staged, last) ==
    IF last \/ ~staged THEN "exited" ELSE "e_table"

\* Lines 66-77: the for loop and its handler: whether the table was staged or
\* the handler logged what was raised, the loop turns to the next table, and
\* main() returns after the last one.
NextPosition(staged, last) ==
    IF last THEN "exited" ELSE "e_table"

\* Lines 66-77: one pass of the loop: extract_table, upload_df_to_s3
\* (Load/s3_loader.py, lines 11-50), and whatever is raised is logged.
ExtractTable ==
    /\ pc = "e_table"
    /\ LET table == table_names[idx]
           last == idx = Len(table_names)
       IN  /\ attempted' = Append(attempted, table)
           /\ IF ~({"POSTGRES_HOST", "POSTGRES_USER", "POSTGRES_PASSWORD"} \subseteq env)
              THEN /\ ioLog' = Append(ioLog, "connect_failed")
                   /\ UNCHANGED <<s3, faultsLeft>>
              ELSE \E o \in ExtractOutcomes :
                   /\ o = "staged" \/ faultsLeft > 0
                   /\ faultsLeft' = IF o = "staged" THEN faultsLeft ELSE faultsLeft - 1
                   /\ IF o = "connect_error"
                      THEN /\ ioLog' = Append(ioLog, "connect_failed")
                           /\ s3' = s3
                      ELSE IF table \notin pg
                      THEN /\ ioLog' = Append(ioLog, "connect")
                           /\ s3' = s3
                      ELSE IF "BUCKET_NAME" \notin env
                      THEN /\ ioLog' = ioLog \o <<"connect", "read_table">>
                           /\ s3' = s3
                      ELSE IF o = "upload_error"
                      THEN /\ ioLog' = ioLog \o <<"connect", "read_table", "put_failed">>
                           /\ s3' = s3
                      ELSE /\ ioLog' = ioLog \o <<"connect", "read_table", "put_object">>
                           /\ s3' = s3 \cup {table}
           /\ LET staged == ioLog'[Len(ioLog')] = "put_object"
                  next == NextPosition(staged, last)
              IN  /\ pc' = next
                  /\ idx' = IF next = "exited" THEN idx ELSE idx + 1
                  /\ outcome' = IF next = "exited" THEN "finished" ELSE outcome
    /\ UNCHANGED <<inputs, existing, warehouse, pg, afterFirst, command, dfs,
                   created, loadResults, runsLeft>>

(* ---------------------- Load/db_loader.py: main() ---------------------- *)
\* Lines 27-29: the check at the module's top level.
CredentialsSet == CREDENTIALS \subseteq env

\* python Load/db_loader.py: without the credentials the import raises
\* ValueError before main() is called.
StartRelational ==
    /\ pc = "idle"
    /\ runsLeft > 0
    /\ runsLeft' = runsLeft - 1
    /\ Fresh("relational", IF CredentialsSet THEN "r_table" ELSE "r_abort")
    /\ UNCHANGED <<inputs, stores, faultsLeft>>

AbortRelational ==
    /\ pc = "r_abort"
    /\ pc' = "exited"
    /\ outcome' = "raised"
    /\ UNCHANGED <<inputs, stores, command, idx, dfs, created, loadResults,
                   attempted, ioLog, runsLeft, faultsLeft>>

\* What the CSV file and the relational store may answer to one table.
CsvOutcomes == {"loaded", "read_error", "write_error"}

\* Lines 40-66 and 78-202: one load_table_from_csv; an exception is logged
\* and raised again, which ends main().
LoadTableFromCsv ==
    /\ pc = "r_table"
    /\ LET table == CsvTables[idx]
           last == idx = Len(CsvTables)
       IN  \E o \in CsvOutcomes :
           /\ o = "loaded" \/ faultsLeft > 0
           /\ faultsLeft' = IF o = "loaded" THEN faultsLeft ELSE faultsLeft - 1
           /\ attempted' = Append(attempted, table)
           /\ IF o = "loaded"
              THEN /\ ioLog' = ioLog \o <<"read_file", "connect", "write_rows">>
                   /\ pg' = pg \cup {table}
                   /\ idx' = IF last THEN idx ELSE idx + 1
                   /\ pc' = IF last THEN "exited" ELSE pc
                   /\ outcome' = IF last THEN "finished" ELSE outcome
              ELSE /\ ioLog' = ioLog \o (IF o = "read_error" THEN <<"read_failed">>
                                         ELSE <<"read_file", "connect_failed">>)
                   /\ pg' = pg
                   /\ idx' = idx
                   /\ pc' = "exited"
                   /\ outcome' = "raised"
    /\ UNCHANGED <<inputs, existing, warehouse, s3, afterFirst, command, dfs,
                   created, loadResults, runsLeft>>

NextExtract == StartExtract \/ AbortExtract \/ ExtractTable

NextRelational == StartRelational \/ AbortRelational \/ LoadTableFromCsv

Next == NextTransform \/ NextExtract \/ NextRelational

(* ------------------------------ inputs --------------------------------- *)
BoundedSeq(S, n) == UNION {[1..k -> S] : k \in 1..n}

File(rows) == [exists |-> TRUE, rows |-> rows]

\* A small well-formed data set: two customers, two orders of one item each,
\* one review, one payment, two products, one seller.
DefaultRaw ==
    [customers |-> File(<<
        [customer_id |-> "c1", customer_unique_id |-> "u1", customer_zip_code_prefix |-> 1],
        [customer_id |-> "c2", customer_unique_id |-> "u2", customer_zip_code_prefix |-> 2]>>),
     order_items |-> File(<<
        [order_id |-> "o1", product_id |-> "p1", seller_id |-> "s1",
         price |-> 41, freight_value |-> 8],
        [order_id |-> "o2", product_id |-> "p2", seller_id |-> "s1",
         price |-> 46, freight_value |-> 9]>>),
     order_payments |-> File(<<[order_id |-> "o1", payment_value |-> 49]>>),
     order_reviews |-> File(<<
        [review_id |-> "r1", order_id |-> "o1", review_creation_date |-> 1,
         review_score |-> 5]>>),
     orders |-> File(<<[order_id |-> "o1", customer_id |-> "c1"],
                       [order_id |-> "o2", customer_id |-> "c2"]>>),
     product_categories |-> File(<<
        [product_category_name |-> "beleza_saude",
         product_category_name_english |-> "health_beauty"]>>),
     products |-> File(<<[product_id |-> "p1", product_category_name |-> "beleza_saude"],
                         [product_id |-> "p2", product_category_name |-> "unknown"]>>),
     sellers |-> File(<<[seller_id |-> "s1"]>>)]

\* One table of the default data set missing, or empty.
BrokenInputs ==
    {[DefaultRaw EXCEPT ![t] = [exists |-> FALSE, rows |-> <<>>]] : t \in Range(RequiredTables)}
    \cup {[DefaultRaw EXCEPT ![t] = File(<<>>)] : t \in Range(RequiredTables)}

\* The default data set with the identifier of column tc[2] in the last row
\* of table tc[1] replaced by a text that is no identifier.
Malformed(tc) ==
    LET rows == DefaultRaw[tc[1]].rows
    IN  [DefaultRaw EXCEPT
            ![tc[1]] = File([rows EXCEPT ![Len(rows)] =
                                 [@ EXCEPT ![tc[2]] = "not-a-uuid"]])]

\* An identifier that is no identifier, in each identifier column in turn.
MalformedInputs == {Malformed(tc) : tc \in IdColumns}

\* Customers: order-scoped ids c1, c2; account u1, also written "U1", and
\* account u2; two zip codes.
CustomerRows ==
    [customer_id : {"c1", "c2"}, customer_unique_id : {"u1", "U1", "u2"},
     customer_zip_code_prefix : {1, 2}]

CustomerInputs ==
    {[DefaultRaw EXCEPT !.customers = File(c)] : c \in BoundedSeq(CustomerRows, MaxRows)}

\* Order items: sums 12.25, 12.5, 13.5 and 13.75; product p9 is in no
\* products table.
ItemRows ==
    [order_id : {"o1"}, product_id : {"p1", "p9"}, seller_id : {"s1"},
     price : {41, 46}, freight_value : {8, 9}]

ItemInputs ==
    {[DefaultRaw EXCEPT !.order_items = File(r)] : r \in BoundedSeq(ItemRows, MaxRows)}

\* Orders of the two items of the default data set: the customer written as
\* in raw customers or in upper case; an order may have two rows.
OrderRows == [order_id : {"o1", "o2"}, customer_id : {"c1", "C1", "c2"}]

OrderInputs ==
    {[DefaultRaw EXCEPT !.orders = File(r)] : r \in BoundedSeq(OrderRows, MaxRows)}

\* Reviews of the two orders: two creation dates or none, two scores.
ReviewRows ==
    [review_id : {"r1"}, order_id : {"o1", "o2"}, review_creation_date : {1, 2, NaN},
     review_score : {1, 5}]

ReviewInputs ==
    {[DefaultRaw EXCEPT !.order_reviews = File(r)] : r \in BoundedSeq(ReviewRows, MaxRows)}

\* Products with a code of the lookup, a code that is not in it, the code
\* "unknown" and no code, against four lookups.
ProductRows ==
    [product_id : {"p1"},
     product_category_name : {"beleza_saude", "pc_gamer", "unknown", NULL}]

Lookups ==
    {<<[product_category_name |-> "beleza_saude",
        product_category_name_english |-> "health_beauty"]>>,
     <<[product_category_name |-> "unknown",
        product_category_name_english |-> "other"]>>,
     <<[product_category_name |-> "beleza_saude",
        product_category_name_english |-> "health_beauty"],
       [product_category_name |-> "beleza_saude",
        product_category_name_english |-> "beauty"]>>,
     <<[product_category_name |-> "beleza_saude",
        product_category_name_english |-> "health_beauty"],
       [product_category_name |-> "unknown",
        product_category_name_english |-> "other"]>>}

ProductInputs ==
    {[DefaultRaw EXCEPT !.products = File(r), !.product_categories = File(l)] :
        r \in BoundedSeq(ProductRows, MaxRows), l \in Lookups}

\* Every variable set, or all but one.
EnvFamily == {AllVars} \cup {AllVars \ {v} : v \in AllVars}

InitWith(envs, raws, pgs, whs, runs, faults) ==
    /\ env \in envs
    /\ raw \in raws
    /\ pg \in pgs
    /\ existing \in whs
    /\ warehouse = NoFrames
    /\ s3 = {}
    /\ afterFirst = NoSnapshot
    /\ command = "none"
    /\ pc = "idle"
    /\ idx = 1
    /\ dfs = NoFrames
    /\ created = <<>>
    /\ loadResults = <<>>
    /\ attempted = <<>>
    /\ ioLog = <<>>
    /\ outcome = "running"
    /\ runsLeft = runs
    /\ faultsLeft = faults

\* The three commands, invoked in any order on the default data set, under
\* every configuration with at most one variable unset; the relational store
\* and the warehouse start with all their tables or with none.
Init ==
    InitWith(EnvFamily, {DefaultRaw}, {{}, Range(CsvTables)}, {{}, WarehouseTables},
             MaxRuns, MaxFaults)

Spec == Init /\ [][Next]_vars

\* One run of the transform command, fully configured and with no store
\* failure, over the input families; the warehouse tables exist, empty, or do
\* not exist.
InitTransform ==
    InitWith({AllVars},
             BrokenInputs \cup MalformedInputs \cup CustomerInputs \cup ItemInputs
                 \cup OrderInputs \cup ReviewInputs \cup ProductInputs,
             {{}}, {{}, WarehouseTables}, 1, 0)

SpecTransform == InitTransform /\ [][NextTransform]_vars

(* ------------------------------ claims --------------------------------- *)
\* The transform command has built its six tables.
Built ==
    /\ command = "transform"
    /\ pc \in {"t_create", "t_load", "t_finish"} \/ (pc = "exited" /\ outcome = "success")

\* load_df_to_snowflake has been called with table t in this run.
Handed(t) ==
    command = "transform" /\ \E i \in 1..Len(loadResults) : LoadOrder[i] = t

\* ... and its rows were written to the warehouse.
Written(t) ==
    command = "transform" /\ \E i \in 1..Len(loadResults) : LoadOrder[i] = t /\ loadResults[i]

\* C1: when one of the eight required raw tables is missing or has no rows,
\* the transform run executes no transformation, issues no create-table
\* statement and hands no table to the loader; it ends by returning.
C1_FailFastOnEmptyInput ==
    (/\ command = "transform"
     /\ \E t \in Range(RequiredTables) : ~raw[t].exists \/ Len(raw[t].rows) = 0)
    => /\ pc \in {"t_extract", "t_check", "exited"}
       /\ dfs = NoFrames
       /\ created = <<>>
       /\ loadResults = <<>>
       /\ warehouse = NoFrames
       /\ pc = "exited" => outcome = "returned"

\* A run that returned because a file that exists holds no rows.
C1_Witness ==
    /\ command = "transform"
    /\ pc = "exited"
    /\ outcome = "returned"
    /\ \E t \in Range(RequiredTables) : raw[t].exists /\ raw[t].rows = <<>>

\* C2: the customer dimension handed to the loader never holds two rows with
\* the same customer_id.
C2_CustomerKeyUnique ==
    Handed("DIM_CUSTOMERS") =>
        \A i, j \in 1..Len(dfs.DIM_CUSTOMERS) :
            i # j => dfs.DIM_CUSTOMERS[i].customer_id # dfs.DIM_CUSTOMERS[j].customer_id

Keys(df, c) == Range(Column(df, c))

\* C3: the orders fact is written to the warehouse only if each of its
\* non-null customer_id, product_id and seller_id values is a key of the
\* dimension it refers to.
C3_ForeignKeysChecked ==
    Written("FACT_ORDERS") =>
        \A i \in 1..Len(dfs.FACT_ORDERS) :
            LET r == dfs.FACT_ORDERS[i]
            IN  /\ r.customer_id \in {NULL, "nan"}
                   \/ r.customer_id \in Keys(dfs.DIM_CUSTOMERS, "customer_id")
                /\ r.product_id \in Keys(dfs.DIM_PRODUCTS, "product_id")
                /\ r.seller_id \in Keys(dfs.DIM_SELLERS, "seller_id")

\* t is an integer nearest to q quarters.
Nearest(t, q) == 4 * t - q \in -2..2

\* q quarters lie halfway between two integers.
Halfway(q) == q % 4 = 2

\* C4 (as amended): total_price of every row of the orders fact is the integer
\* nearest to freight_value + price, and the even one when the sum lies
\* halfway between two integers: 12.50 gives 12.
C4_TotalPriceHalfEven ==
    Built =>
        \A i \in 1..Len(dfs.FACT_ORDERS) :
            LET r == dfs.FACT_ORDERS[i]
                q == r.freight_value + r.price
            IN  /\ Nearest(r.total_price, q)
                /\ Halfway(q) => r.total_price % 2 = 0
                /\ q = 50 => r.total_price = 12

\* A fact row whose sum is 12.50 was written to the warehouse.
C4_Witness ==
    /\ Written("FACT_ORDERS")
    /\ \E i \in 1..Len(warehouse.FACT_ORDERS) :
           warehouse.FACT_ORDERS[i].freight_value + warehouse.FACT_ORDERS[i].price = 50

\* C4 (as claimed): total_price is the nearest integer, and 12.50 gives 13.
C4_TotalPriceHalfUp ==
    Built =>
        \A i \in 1..Len(dfs.FACT_ORDERS) :
            LET r == dfs.FACT_ORDERS[i]
                q == r.freight_value + r.price
            IN  /\ Nearest(r.total_price, q)
                /\ q = 50 => r.total_price = 13

\* The raw reviews, order items and orders of order o.
ReviewsOf(o) == SelectSeq(raw.order_reviews.rows, LAMBDA r : UUID(r.order_id) = o)
ItemsOf(o) == SelectSeq(raw.order_items.rows, LAMBDA r : UUID(r.order_id) = o)
OrdersOf(o) == SelectSeq(raw.orders.rows, LAMBDA r : UUID(r.order_id) = o)

\* Order o has a review, and its reviews have creation dates that differ.
DistinctlyReviewed(o) ==
    LET rs == ReviewsOf(o)
    IN  /\ rs # <<>>
        /\ \A i \in 1..Len(rs) : rs[i].review_creation_date # NaN
        /\ \A i, j \in 1..Len(rs) :
               i # j => rs[i].review_creation_date # rs[j].review_creation_date

LatestReview(o) ==
    LET rs == ReviewsOf(o)
    IN  rs[CHOOSE i \in 1..Len(rs) :
               \A j \in 1..Len(rs) :
                   rs[j].review_creation_date <= rs[i].review_creation_date]

\* C5: for an order whose reviews have pairwise different creation dates,
\* every row of the orders fact of that order carries the score of the review
\* with the latest date, and the order has as many fact rows as its order
\* items joined to its orders give: the reviews add none.
C5_LatestReviewOnly ==
    Built =>
        \A o \in CanonicalIds :
            DistinctlyReviewed(o) =>
                LET rows == SelectSeq(dfs.FACT_ORDERS, LAMBDA r : r.order_id = o)
                    perItem == IF OrdersOf(o) = <<>> THEN 1 ELSE Len(OrdersOf(o))
                IN  /\ \A i \in 1..Len(rows) :
                           rows[i].order_rating = LatestReview(o).review_score
                    /\ Len(rows) = Len(ItemsOf(o)) * perItem

\* The fact is built for an order with two reviews, the later one coming
\* first in the raw table and carrying another score.
C5_Witness ==
    /\ Built
    /\ \E o \in CanonicalIds :
           /\ DistinctlyReviewed(o)
           /\ Len(ReviewsOf(o)) = 2
           /\ ReviewsOf(o)[1].review_creation_date > ReviewsOf(o)[2].review_creation_date
           /\ ReviewsOf(o)[1].review_score # ReviewsOf(o)[2].review_score
           /\ \E i \in 1..Len(dfs.FACT_ORDERS) : dfs.FACT_ORDERS[i].order_id = o

\* The days of month m of year y, in order.
MonthDays(y, m) == [d \in 1..DaysInMonth(y, m) |-> <<y, m, d>>]

\* The days of year y, in order.
YearDays(y) == Concat([m \in 1..12 |-> MonthDays(y, m)])

\* Every calendar day from 2016-01-01 to 2018-12-31, in order, each once.
Calendar == YearDays(2016) \o YearDays(2017) \o YearDays(2018)

CalendarRows == [i \in 1..Len(Calendar) |-> [date |-> Ordinal(Calendar[i])]]

\* C6: the date dimension has 1096 rows, one for every calendar day from
\* 2016-01-01 to 2018-12-31 in order, each date one day after the one before,
\* whatever the raw tables hold.
C6_DateDimensionComplete ==
    Built =>
        LET d == dfs.DIM_DATES
        IN  /\ Len(d) = 1096
            /\ [i \in 1..Len(d) |-> [date |-> d[i].date]] = CalendarRows
            /\ d[Len(d)].date = d[1].date + 1095

\* The date dimension was written to the warehouse.
C6_Witness ==
    /\ Written("DIM_DATES")
    /\ Len(warehouse.DIM_DATES) = 1096

\* C7: product_category_name of a product row is the label a lookup row gives
\* for the row's raw code, and "unknown" when the code is "unknown", is
\* missing or is in no lookup row.
C7_CategoryFallback ==
    Built =>
        /\ Len(dfs.DIM_PRODUCTS) = Len(raw.products.rows)
        /\ \A i \in 1..Len(dfs.DIM_PRODUCTS) :
               LET code == raw.products.rows[i].product_category_name
                   label == dfs.DIM_PRODUCTS[i].product_category_name
                   lookup == raw.product_categories.rows
               IN  IF /\ code # "unknown"
                      /\ code # NULL
                      /\ \E k \in 1..Len(lookup) : lookup[k].product_category_name = code
                   THEN \E k \in 1..Len(lookup) :
                            /\ lookup[k].product_category_name = code
                            /\ lookup[k].product_category_name_english = label
                   ELSE label = "unknown"

\* The product dimension is built from a product whose code is in no lookup
\* row, or is missing, and one whose code is "unknown" under a lookup that
\* has a row for "unknown".
C7_Witness ==
    /\ Built
    /\ \E i \in 1..Len(raw.products.rows) :
           raw.products.rows[i].product_category_name \in {"pc_gamer", NULL}
    /\ \E i \in 1..Len(raw.products.rows) :
           raw.products.rows[i].product_category_name = "unknown"
    /\ \E k \in 1..Len(raw.product_categories.rows) :
           raw.product_categories.rows[k].product_category_name = "unknown"

\* C8: a transform run whose six loads all succeeded leaves every warehouse
\* table with the rows the first such run left.
C8_SecondRunSameRows ==
    (/\ command = "transform"
     /\ pc = "exited"
     /\ outcome = "success"
     /\ AllLoaded
     /\ afterFirst.taken)
    => warehouse = afterFirst.tables

\* C9: the transform run ends with the success outcome only if every one of
\* the six loads returned success.
C9_SuccessOnlyIfAllLoaded ==
    (command = "transform" /\ outcome = "success") => AllLoaded

\* The variables each command needs.
RequiredVars(cmd) ==
    CASE cmd = "transform" -> SnowflakeVars
      [] cmd = "extract" -> CREDENTIALS \cup {"BUCKET_NAME"}
      [] cmd = "relational" -> CREDENTIALS
      [] OTHER -> {}

\* A file or table was read, a connection opened, an object or rows written.
IoDone ==
    \E i \in 1..Len(ioLog) :
        ioLog[i] \in {"read_file", "read_table", "connect", "put_object", "write_rows"}

\* C10: a command that lacks one of its variables performs no I/O.
C10_NoIoWithoutCredentials ==
    ~(RequiredVars(command) \subseteq env) => ~IoDone

\* The run has reached its load phase: the create loop is over.
Loading ==
    /\ command = "transform"
    /\ pc \in {"t_load", "t_finish"} \/ (pc = "exited" /\ outcome = "success")

\* C11: when the transform run starts to load, the create-if-not-exists
\* statement of each of the six target tables has been executed on the
\* warehouse, so each of them exists there, and a table is written only
\* after all six exist.
C11_CreatedBeforeWritten ==
    Loading =>
        /\ Range(created) = WarehouseTables
        /\ WarehouseTables \subseteq existing

\* A value of an identifier column of a raw table is no identifier.
Unparsable ==
    \E tc \in IdColumns :
        \E i \in 1..Len(raw[tc[1]].rows) : UUID(raw[tc[1]].rows[i][tc[2]]) = BadUUID

\* C12: when a value of an identifier column of a raw table does not parse,
\* the transform run builds none of the six tables, issues no create
\* statement, hands no table to the loader and writes nothing; unless it
\* returned at the input check, it ends by raising.
C12_BadIdentifierAborts ==
    (command = "transform" /\ Unparsable) =>
        /\ pc \in {"t_extract", "t_check", "t_transform", "exited"}
        /\ dfs = NoFrames
        /\ created = <<>>
        /\ loadResults = <<>>
        /\ warehouse = NoFrames
        /\ pc = "exited" =>
               \/ outcome = "raised"
               \/ /\ outcome = "returned"
                  /\ \E t \in Range(RequiredTables) : MissingOrEmpty(raw[t])

\* A run raised over an identifier of the sellers table, the last one main()
\* transforms, that does not parse.
C12_Witness ==
    /\ command = "transform"
    /\ pc = "exited"
    /\ outcome = "raised"
    /\ \E i \in 1..Len(raw.sellers.rows) : UUID(raw.sellers.rows[i].seller_id) = BadUUID
    /\ \A t \in Range(RequiredTables) \ {"sellers"} : raw[t] = DefaultRaw[t]

\* C13: the rows of the orders fact of an order are its order items, each
\* joined to the order's rows of raw orders in turn; a fact row whose order
\* row carries the order-scoped customer_id of a raw customers row has that
\* row's customer_unique_id as its customer_id, and this is a customer_id of
\* the customer dimension.
C13_AccountScopedCustomer ==
    Built =>
        \A o \in CanonicalIds :
            LET rows == SelectSeq(dfs.FACT_ORDERS, LAMBDA r : r.order_id = o)
                ords == OrdersOf(o)
                custs == raw.customers.rows
            IN  ords # <<>> =>
                /\ Len(rows) = Len(ItemsOf(o)) * Len(ords)
                /\ \A j \in 1..Len(rows) :
                       LET ord == ords[((j - 1) % Len(ords)) + 1]
                       IN  \A k \in 1..Len(custs) :
                               UUID(custs[k].customer_id) = UUID(ord.customer_id) =>
                                   /\ rows[j].customer_id = UUID(custs[k].customer_unique_id)
                                   /\ rows[j].customer_id \in
                                          Keys(dfs.DIM_CUSTOMERS, "customer_id")

\* The fact was written for two orders of two order-scoped customers of one
\* account, which the customer dimension holds as one row.
C13_Witness ==
    /\ Written("FACT_ORDERS")
    /\ Len(raw.customers.rows) = 2
    /\ raw.customers.rows[1].customer_id # raw.customers.rows[2].customer_id
    /\ Len(dfs.DIM_CUSTOMERS) = 1
    /\ Len(warehouse.FACT_ORDERS) = 2
    /\ warehouse.FACT_ORDERS[1].order_id # warehouse.FACT_ORDERS[2].order_id
    /\ \A i \in 1..2 :
           warehouse.FACT_ORDERS[i].customer_id = dfs.DIM_CUSTOMERS[1].customer_id

\* The ISO-8601 week of day number n: the week of the year its Thursday lies
\* in, counted from the week of the year's first Thursday.
IsoWeek(n) ==
    LET thursday == n - Weekday(n) + 3
    IN  (DayOfYear(thursday) - 1) \div 7 + 1

\* C14: week_by_year of every row of the date dimension is the ISO-8601 week
\* of the row's date: 53 for 2016-01-01 and 1 for 2018-12-31.
C14_WeekIsIso ==
    Built =>
        LET d == dfs.DIM_DATES
        IN  /\ \A i \in 1..Len(d) : d[i].week_by_year = IsoWeek(d[i].date)
            /\ d[1].date = Ordinal(<<2016, 1, 1>>) /\ d[1].week_by_year = 53
            /\ d[Len(d)].date = Ordinal(<<2018, 12, 31>>) /\ d[Len(d)].week_by_year = 1

\* C15: the extract run, once main() is entered, tries the nine tables one
\* after the other in the order of the list, each once, and ends normally
\* after the ninth, whatever happened to each of them.
C15_EveryTableAttempted ==
    (command = "extract" /\ DatabaseUrlParses) =>
        /\ pc \in {"e_table", "exited"}
        /\ pc = "e_table" =>
               /\ idx \in 1..Len(table_names)
               /\ attempted = SubSeq(table_names, 1, idx - 1)
        /\ pc = "exited" =>
               /\ outcome = "finished"
               /\ Len(attempted) = 9
               /\ attempted = table_names

\* The run ended after nine tables, one of which failed to be read or to be
\* uploaded while a later one was staged.
C15_Witness ==
    /\ command = "extract"
    /\ pc = "exited"
    /\ outcome = "finished"
    /\ attempted = table_names
    /\ \E i, j \in 1..Len(ioLog) :
           /\ i < j
           /\ ioLog[i] \in {"connect_failed", "put_failed"}
           /\ ioLog[j] = "put_object"

====
